---- MODULE Spec2Model ----
(***************************************************************************)
(* The customs CLI: one run of main() -- map the spreadsheet rows to an    *)
(* import request, submit it, poll the job status, fetch the result and    *)
(* write the customs codes back into the sheet.                            *)
(*                                                                         *)
(* Cells, header names, statuses and codes are strings; indices are Go's   *)
(* 0-based indices, so cell i of a row is row[i + 1].  A nilable pointer   *)
(* (to an int, a string, a float64 or a CustomsCodesResponse) is the empty *)
(* tuple for nil and a one-element tuple for a pointer to a value.         *)
(***************************************************************************)
EXTENDS Integers, Sequences, FiniteSets, TLC

(* ------------------------------ bounds --------------------------------- *)

\* Most data rows of an input sheet (the header row comes on top).
MaxRows == 2

\* Largest value of the --timeout flag.
MaxTimeout == 2

\* Most items of a fetched import response.
MaxItems == 2

(* ------------------------------ strings -------------------------------- *)

\* The lower-case letter of each upper-case letter.
LowerOf ==
    [c \in {"A", "B", "C", "D", "E", "F", "G", "H", "I", "J", "K", "L", "M",
            "N", "O", "P", "Q", "R", "S", "T", "U", "V", "W", "X", "Y", "Z"} |->
        CASE c = "A" -> "a" [] c = "B" -> "b" [] c = "C" -> "c" [] c = "D" -> "d"
          [] c = "E" -> "e" [] c = "F" -> "f" [] c = "G" -> "g" [] c = "H" -> "h"
          [] c = "I" -> "i" [] c = "J" -> "j" [] c = "K" -> "k" [] c = "L" -> "l"
          [] c = "M" -> "m" [] c = "N" -> "n" [] c = "O" -> "o" [] c = "P" -> "p"
          [] c = "Q" -> "q" [] c = "R" -> "r" [] c = "S" -> "s" [] c = "T" -> "t"
          [] c = "U" -> "u" [] c = "V" -> "v" [] c = "W" -> "w" [] c = "X" -> "x"
          [] c = "Y" -> "y" [] c = "Z" -> "z"]

Digits == {"0", "1", "2", "3", "4", "5", "6", "7", "8", "9"}

\* unicode.IsSpace on the characters the cells are made of.
IsSpace(c) == c \in {" ", "\t", "\n", "\r"}

\* unicode.ToLower of one character.
LowerChar(c) == IF c \in DOMAIN LowerOf THEN LowerOf[c] ELSE c

RECURSIVE ToLower(_)
\* strings.ToLower
ToLower(s) == IF s = "" THEN "" ELSE LowerChar(Head(s)) \o ToLower(Tail(s))

RECURSIVE TrimLeft(_)
TrimLeft(s) == IF s # "" /\ IsSpace(Head(s)) THEN TrimLeft(Tail(s)) ELSE s

RECURSIVE TrimRight(_)
TrimRight(s) ==
    IF s # "" /\ IsSpace(SubSeq(s, Len(s), Len(s)))
    THEN TrimRight(SubSeq(s, 1, Len(s) - 1))
    ELSE s

\* strings.TrimSpace
TrimSpace(s) == TrimRight(TrimLeft(s))

\* strings.EqualFold, on ASCII letters.
EqualFold(a, b) == ToLower(a) = ToLower(b)

RECURSIVE SplitFrom(_, _, _)
\* The pieces of s between separators, cur being the piece under way.
SplitFrom(s, sep, cur) ==
    IF s = "" THEN <<cur>>
    ELSE IF Head(s) = sep THEN <<cur>> \o SplitFrom(Tail(s), sep, "")
    ELSE SplitFrom(Tail(s), sep, cur \o Head(s))

\* strings.Split(s, sep) for a one-character separator: "" gives <<"">>.
Split(s, sep) == SplitFrom(s, sep, "")

(* ----------------------------- constants ------------------------------- *)

customsTerritoryEU == "eu"

customsTerritoryNO == "no"

allowedCustomsTerritories == <<customsTerritoryEU, customsTerritoryNO>>

ImportItemStatusPending == "pending"

ImportItemStatusProcessing == "processing"

ImportItemStatusProcessed == "processed"

ImportItemStatusFailed == "failed"

\* slices.Contains
Contains(seq, x) == \E n \in 1..Len(seq) : seq[n] = x

(* --------------------------- the row mapper ---------------------------- *)

\* A mutation of getColumnIndex: the header cell is compared as it is, neither
\* trimmed nor case-folded.
getColumnIndexExact(row, name) ==
    LET hits == {n \in 1..Len(row) : name = row[n]}
    IN  IF hits = {} THEN <<>>
        ELSE <<(CHOOSE n \in hits : \A m \in hits : n <= m) - 1>>

\* getColumnIndex: a pointer to the first index whose trimmed header cell
\* equals name under case folding, nil when there is none.
getColumnIndex(row, name) ==
    LET hits == {n \in 1..Len(row) : EqualFold(name, TrimSpace(row[n]))}
    IN  IF hits = {} THEN <<>>
        ELSE <<(CHOOSE n \in hits : \A m \in hits : n <= m) - 1>>

\* getMandatoryColumnIndex: the index, or the error naming the column.
getMandatoryColumnIndex(row, name) ==
    LET index == getColumnIndex(row, name)
    IN  IF index = <<>>
        THEN [err |-> TRUE, index |-> 0, column |-> name]
        ELSE [err |-> FALSE, index |-> index[1], column |-> name]

\* The read row[i] of getString, getStringPtr and getFloatPtr goes out of range
\* (a run-time panic) when the row is shorter than the column's index.
OutOfRange(row, i) == i # <<>> /\ Len(row) <= i[1]

\* getString (defined when the read is in range).
getString(row, i) == IF i = <<>> THEN "" ELSE row[i[1] + 1]

\* getStringPtr (defined when the read is in range).
getStringPtr(row, i) == IF i = <<>> THEN <<>> ELSE <<row[i[1] + 1]>>

RECURSIVE AllDigits(_)
AllDigits(s) == s = "" \/ (Head(s) \in Digits /\ AllDigits(Tail(s)))

\* A decimal mantissa: digits with at most one point and at least one digit.
IsDecimal(s) ==
    \E n \in 0..Len(s) :
       LET int  == SubSeq(s, 1, n)
           rest == SubSeq(s, n + 1, Len(s))
       IN  /\ AllDigits(int)
           /\ \/ rest = "" /\ int # ""
              \/ /\ rest # ""
                 /\ Head(rest) = "."
                 /\ AllDigits(Tail(rest))
                 /\ int \o Tail(rest) # ""

\* strconv.ParseFloat(value, 64) on the plain forms the cells take: an
\* optional sign before a decimal mantissa, the signed infinities ("inf",
\* "infinity") and the unsigned "nan", letters in any case.  class tells a
\* finite number from NaN and from an infinity; neg is its sign and digits
\* its mantissa.
ParseFloat(value) ==
    LET signed == value # "" /\ Head(value) \in {"+", "-"}
        neg    == value # "" /\ Head(value) = "-"
        body   == IF signed THEN Tail(value) ELSE value
    IN  IF ToLower(body) \in {"inf", "infinity"}
        THEN [err |-> FALSE, class |-> "inf", neg |-> neg, digits |-> ""]
        ELSE IF ~signed /\ ToLower(body) = "nan"
        THEN [err |-> FALSE, class |-> "nan", neg |-> FALSE, digits |-> ""]
        ELSE IF IsDecimal(body)
        THEN [err |-> FALSE, class |-> "finite", neg |-> neg, digits |-> body]
        ELSE [err |-> TRUE, class |-> "none", neg |-> FALSE, digits |-> ""]

\* getFloatPtr (defined when the read is in range): nil for a missing column
\* or an empty cell, else the parsed number or the parse error.
getFloatPtr(row, i) ==
    IF i = <<>> THEN [err |-> FALSE, ptr |-> <<>>]
    ELSE LET value == row[i[1] + 1]
         IN  IF value = "" THEN [err |-> FALSE, ptr |-> <<>>]
             ELSE LET f == ParseFloat(value)
                  IN  IF f.err THEN [err |-> TRUE, ptr |-> <<>>]
                      ELSE [err |-> FALSE, ptr |-> <<f>>]

\* The entries of the cell, each lower-cased and trimmed.
NormalisedTerritories(customsTerritories) ==
    LET parts == Split(customsTerritories, ",")
    IN  [n \in 1..Len(parts) |-> TrimSpace(ToLower(parts[n]))]

\* A mutation of prepareCustomsTerritories: the membership check is missing.
prepareCustomsTerritoriesUnchecked(customsTerritories) ==
    [err |-> FALSE, result |-> NormalisedTerritories(customsTerritories),
     territory |-> ""]

\* A mutation of prepareCustomsTerritories: the error names the last entry
\* that is not an allowed territory.
prepareCustomsTerritoriesLastBad(customsTerritories) ==
    LET norm == NormalisedTerritories(customsTerritories)
        bad  == {n \in 1..Len(norm) : ~Contains(allowedCustomsTerritories, norm[n])}
    IN  IF bad = {}
        THEN [err |-> FALSE, result |-> norm, territory |-> ""]
        ELSE [err |-> TRUE, result |-> <<>>,
              territory |-> norm[CHOOSE n \in bad : \A m \in bad : m <= n]]

\* prepareCustomsTerritories: the normalised entries, or the error naming
\* the first entry that is not an allowed territory.
prepareCustomsTerritories(customsTerritories) ==
    LET norm == NormalisedTerritories(customsTerritories)
        bad  == {n \in 1..Len(norm) : ~Contains(allowedCustomsTerritories, norm[n])}
    IN  IF bad = {}
        THEN [err |-> FALSE, result |-> norm, territory |-> ""]
        ELSE [err |-> TRUE, result |-> <<>>,
              territory |-> norm[CHOOSE n \in bad : \A m \in bad : n <= m]]

(* ------------------------------ inputs --------------------------------- *)

\* Header rows with the four mandatory columns: as named, in another case
\* and with blanks around them (and the two mass columns after them), and
\* in another order.
CompleteHeaders ==
    { <<"id", "name", "description", "customs territories">>,
      <<" ID ", "Name", "DESCRIPTION", "Customs Territories", "gross mass", "net mass">>,
      <<"customs territories", "name", "id", "description">> }

\* Header rows that lack one mandatory column.
IncompleteHeaders ==
    { <<"name", "description", "customs territories">>,
      <<"id", "description", "customs territories">>,
      <<"id", "name", "customs territories">>,
      <<"id", "name", "description">> }

\* Data rows that sheets of several rows are made of.  A row may be
\* shorter than the header (the sheet reader drops a row's trailing empty
\* cells) or longer.
CoreRows ==
    { <<"A1", "Laptop", "d", "EU, no">>,
      <<"A2", "Car", "d", "no">>,
      <<"A2", "Car", "d", "no", "1.5", "-2">>,
      <<"A3", "Pen", "d", "us">> }

\* Further data rows, of one-row sheets: a mass that is not a number, one
\* that is not a decimal, a row of one cell, a row in another column order.
EdgeRows ==
    { <<"A3", "Pen", "d", "eu", "NaN", "1">>,
      <<"A1", "Laptop", "d", "eu", "abc">>,
      <<"A1">>,
      <<"EU", "Car", "A2", "d">> }

RECURSIVE SeqsUpTo(_, _)
\* The sequences over S of length at most n.
SeqsUpTo(S, n) ==
    IF n = 0 THEN {<<>>}
    ELSE LET shorter == SeqsUpTo(S, n - 1)
         IN  shorter \cup {Append(q, x) : q \in {r \in shorter : Len(r) = n - 1}, x \in S}

\* Header rows of sheets that an earlier run has written: the result
\* columns are there already.
OutputHeaders ==
    { <<"id", "name", "description", "customs territories", "result EU", "result NO">> }

\* Data rows of such sheets, with and without the codes of the earlier run.
OutputRows ==
    { <<"A1", "Laptop", "d", "EU, no", "8471.30", "8471.30">>,
      <<"A2", "Car", "d", "no">> }

\* What GetRows returns: the header row and at least one data row (main
\* stops on a sheet of fewer than two rows before it maps anything).
Sheets ==
    {<<h>> \o d : h \in CompleteHeaders, d \in SeqsUpTo(CoreRows, MaxRows) \ {<<>>}}
    \cup {<<h, r>> : h \in CompleteHeaders, r \in EdgeRows}
    \cup {<<h, r>> : h \in IncompleteHeaders, r \in CoreRows \cup EdgeRows}
    \cup {<<h, r>> : h \in OutputHeaders, r \in OutputRows}

\* Values of the --url flag; the second cannot be parsed as a URL.
URLs == {"http://h", "http://h\n"}

\* Values of the --timeout flag.
Timeouts == 0..MaxTimeout

(* ------------------------------- state --------------------------------- *)

VARIABLES
    pc,            \* the stage main is in (or stopped in): map, submit, poll,
                   \* fetch, reconcile, done
    rows,          \* the rows read from the sheet (GetRows), header first
    sheet,         \* the rows of the in-memory spreadsheet file
    url,           \* the --url flag
    timeout,       \* the --timeout flag
    headings,      \* the header row, with the result columns once appended
    idx,           \* the resolved column indices (iID, iName, ...)
    imp,           \* the ImportRequest built from the rows
    importLocation,        \* the job location returned by sendImportRequest
    i,                     \* waitForProcessing's loop counter
    importStatusResponse,  \* waitForProcessing's decoded status document
    waitResult,            \* what waitForProcessing returned ("" before it returns)
    importResponse,        \* the items of the fetched ImportResponse
    k,             \* how many items of the response have been reconciled
    exit,          \* running, ok (exit 0), fatal (log.Fatal, exit 1), panic (exit 2)
    message,       \* what the run printed when it stopped
    saved,         \* whether SaveAs has written the output file
    sleeps,        \* how many times waitForProcessing has slept for a second
    slept,         \* for how many seconds waitForProcessing has slept in all
    http,          \* how many requests of each kind were issued, and the
                   \* answers to the POST and to the fetch
    call,          \* a call of one function on its own: the function and its
                   \* arguments (NoCall in a run of main)
    ret            \* what that call returned (NoReturn before it returns)

vars == <<pc, rows, sheet, url, timeout, headings, idx, imp, importLocation, i,
          importStatusResponse, waitResult, importResponse, k, exit, message, saved,
          sleeps, slept, http, call, ret>>

NoIndices ==
    [iID |-> 0, iName |-> 0, iDescription |-> 0, iCustomsTerritories |-> 0,
     iCategory |-> <<>>, iSubcategory |-> <<>>, iCountryOfOrigin |-> <<>>,
     iGrossMass |-> <<>>, iNetMass |-> <<>>, iWeightUnit |-> <<>>, iModel |-> <<>>,
     iResultEU |-> 0, iResultNO |-> 0]

\* A message: what went wrong, the value it names (a column, a territory,
\* an item id, a response body) and the status code it carries, if any.
NoMessage == [kind |-> "", arg |-> "", code |-> 0]

\* Nothing sent yet; a status code of 0 stands for no answer.  Of the
\* body of the answer to the fetch, whether it is a JSON document and, if
\* not, its text.  Of the answer to the last status GET, its status code
\* and whether its body is a JSON document.
NoRequests ==
    [posts |-> 0, gets |-> 0, fetches |-> 0,
     getStatus |-> 0, getDecodes |-> FALSE,
     postStatus |-> 0, postLocation |-> "", postBody |-> "",
     fetchStatus |-> 0, fetchDecodes |-> FALSE, fetchText |-> ""]

\* No function is called on its own.
NoCall == [fn |-> "main"]

NoReturn == [returned |-> FALSE]

Init ==
    /\ pc = "map"
    /\ rows \in Sheets
    /\ sheet = rows
    /\ url \in URLs
    /\ timeout \in Timeouts
    /\ headings = rows[1]
    /\ idx = NoIndices
    /\ imp = <<>>
    /\ importLocation = ""
    /\ i = 0
    /\ importStatusResponse = ""
    /\ waitResult = ""
    /\ importResponse = <<>>
    /\ k = 0
    /\ exit = "running"
    /\ message = NoMessage
    /\ saved = FALSE
    /\ sleeps = 0
    /\ slept = 0
    /\ http = NoRequests
    /\ call = NoCall
    /\ ret = NoReturn

\* log.Fatalln / log.Fatalf: print the message and exit 1, in the stage
\* main is in.
Fatal(kind, arg, code) ==
    /\ pc' = pc
    /\ exit' = "fatal"
    /\ message' = [kind |-> kind, arg |-> arg, code |-> code]

\* A run-time panic (index out of range, nil dereference): exit 2.
Panic(kind) ==
    /\ pc' = pc
    /\ exit' = "panic"
    /\ message' = [kind |-> kind, arg |-> "", code |-> 0]

(* ------------------------ main: mapping the rows ----------------------- *)

\* The column names main looks up, the mandatory ones in the order it
\* resolves them.
MandatoryColumns == <<"id", "name", "description", "customs territories">>

\* The indices main resolves from the header row (defined when no mandatory
\* column is missing), the result columns being appended after the last
\* header cell.
ResolveIndices(row) ==
    [iID                 |-> getMandatoryColumnIndex(row, "id").index,
     iName               |-> getMandatoryColumnIndex(row, "name").index,
     iDescription        |-> getMandatoryColumnIndex(row, "description").index,
     iCustomsTerritories |-> getMandatoryColumnIndex(row, "customs territories").index,
     iCategory           |-> getColumnIndex(row, "category"),
     iSubcategory        |-> getColumnIndex(row, "subcategory"),
     iCountryOfOrigin    |-> getColumnIndex(row, "country of origin"),
     iGrossMass          |-> getColumnIndex(row, "gross mass"),
     iNetMass            |-> getColumnIndex(row, "net mass"),
     iWeightUnit         |-> getColumnIndex(row, "weight unit"),
     iModel              |-> getColumnIndex(row, "model"),
     iResultEU           |-> Len(row),
     iResultNO           |-> Len(row) + 1]

\* The mandatory columns the header row lacks, as positions in
\* MandatoryColumns.
MissingColumns(row) ==
    {n \in 1..Len(MandatoryColumns) :
        getMandatoryColumnIndex(row, MandatoryColumns[n]).err}

\* A mutation of AppendResultColumns: the second result column is missing.
AppendResultColumnsOne(row) == row \o <<"result EU">>

\* The header row with the two result columns appended.
AppendResultColumns(row) == row \o <<"result EU", "result NO">>

RowOK(item) == [kind |-> "ok", item |-> item, message |-> NoMessage]

RowPanic ==
    [kind |-> "panic", item |-> <<>>,
     message |-> [kind |-> "index out of range", arg |-> "", code |-> 0]]

RowFatal(kind, arg) ==
    [kind |-> "fatal", item |-> <<>>,
     message |-> [kind |-> kind, arg |-> arg, code |-> 0]]

\* One pass of main's loop over the data rows: the ImportItemRequest of the
\* row, or how the run stops on it.  The reads and checks come in the
\* order of the code, so the first that fails decides.
MapRow(row, ix) ==
    IF \/ OutOfRange(row, <<ix.iID>>)
       \/ OutOfRange(row, <<ix.iName>>)
       \/ OutOfRange(row, <<ix.iDescription>>)
       \/ OutOfRange(row, <<ix.iCustomsTerritories>>)
    THEN RowPanic
    ELSE
    LET id  == getString(row, <<ix.iID>>)
        customsTerritories ==
            prepareCustomsTerritories(getString(row, <<ix.iCustomsTerritories>>))
    IN
    IF customsTerritories.err
    THEN RowFatal("customs territory is not supported", customsTerritories.territory)
    ELSE IF \/ OutOfRange(row, ix.iCategory)
            \/ OutOfRange(row, ix.iSubcategory)
            \/ OutOfRange(row, ix.iCountryOfOrigin)
            \/ OutOfRange(row, ix.iGrossMass)
    THEN RowPanic
    ELSE IF getFloatPtr(row, ix.iGrossMass).err
    THEN RowFatal("invalid gross mass for item", id)
    ELSE IF OutOfRange(row, ix.iNetMass)
    THEN RowPanic
    ELSE IF getFloatPtr(row, ix.iNetMass).err
    THEN RowFatal("invalid net mass for item", id)
    ELSE IF OutOfRange(row, ix.iWeightUnit) \/ OutOfRange(row, ix.iModel)
    THEN RowPanic
    ELSE RowOK([ID                 |-> id,
                Name               |-> getString(row, <<ix.iName>>),
                Description        |-> getString(row, <<ix.iDescription>>),
                CustomsTerritories |-> customsTerritories.result,
                Category           |-> getStringPtr(row, ix.iCategory),
                Subcategory        |-> getStringPtr(row, ix.iSubcategory),
                CountryOfOrigin    |-> getStringPtr(row, ix.iCountryOfOrigin),
                GrossMass          |-> getFloatPtr(row, ix.iGrossMass).ptr,
                NetMass            |-> getFloatPtr(row, ix.iNetMass).ptr,
                WeightUnit         |-> getStringPtr(row, ix.iWeightUnit),
                Model              |-> getStringPtr(row, ix.iModel)])

\* The data rows (1-based positions in rs, the header being rs[1]) on which
\* the loop stops.
BadRows(rs, ix) == {n \in 2..Len(rs) : MapRow(rs[n], ix).kind # "ok"}

\* The ImportRequest of a sheet all of whose rows map: one item per data
\* row, in the order of the rows.
BuildImport(rs, ix) == [n \in 1..(Len(rs) - 1) |-> MapRow(rs[n + 1], ix).item]

\* main, from the header lookup to the end of the loop over the data rows:
\* a missing mandatory column stops the run before anything is changed;
\* otherwise the result columns are appended, the header is written to the
\* sheet, and the first row that does not map stops the run.
MapRows ==
    /\ pc = "map"
    /\ exit = "running"
    /\ UNCHANGED <<call, ret>>
    /\ UNCHANGED <<rows, url, timeout, importLocation, i, importStatusResponse,
                   waitResult, importResponse, k, saved, sleeps, slept, http>>
    /\ LET missing == MissingColumns(rows[1])
       IN  IF missing # {}
           THEN /\ Fatal("provided file has no column",
                         MandatoryColumns[CHOOSE n \in missing : \A m \in missing : n <= m],
                         0)
                /\ UNCHANGED <<sheet, headings, idx, imp>>
           ELSE /\ idx' = ResolveIndices(rows[1])
                /\ headings' = AppendResultColumns(rows[1])
                /\ sheet' = [sheet EXCEPT ![1] = AppendResultColumns(rows[1])]
                /\ LET bad == BadRows(rows, idx')
                   IN  IF bad = {}
                       THEN /\ imp' = BuildImport(rows, idx')
                            /\ pc' = "submit"
                            /\ UNCHANGED <<exit, message>>
                       ELSE LET r == MapRow(rows[CHOOSE n \in bad : \A m \in bad : n <= m], idx')
                            IN  /\ imp' = <<>>
                                /\ pc' = pc
                                /\ exit' = r.kind
                                /\ message' = r.message

(* --------------------------- the HTTP client --------------------------- *)

\* Status codes the server answers the POST with.
PostStatusCodes == {201, 200, 500}

\* Status codes the server answers the fetch with.
FetchStatusCodes == {200, 201, 404}

\* Location headers of the answer to the POST; the second holds a
\* character no URL may hold.
Locations == {"/jobs/1", "/jobs/\t"}

\* Bodies that are no JSON document.
ErrorBodies == {"", "quota exceeded"}

\* Status codes the server answers a status GET with.
PollStatusCodes == {200, 404}

\* The status of a status document; <<>> is a document without the field.
StatusDocuments ==
    { <<>>, <<ImportItemStatusPending>>, <<ImportItemStatusProcessing>>,
      <<ImportItemStatusProcessed>>, <<ImportItemStatusFailed>>, <<"unknown">> }

Code(territory, code) == [CustomsTerritory |-> territory, Code |-> code]

\* Items of the fetched import responses (the fields main reads).
ResponseItems ==
    { [ID |-> "A1", Tarics |-> <<Code("eu", "8471.30"), Code("no", "8471.30")>>],
      [ID |-> "A2", Tarics |-> <<Code("no", "8703.23")>>],
      [ID |-> "A2", Tarics |-> <<Code("no", "8703.23"), Code("eu", "8703.24")>>],
      [ID |-> "A1", Tarics |-> <<Code("eu", "8471.30")>>],
      [ID |-> "A9", Tarics |-> <<Code("eu", "0101.21"), Code("no", "0101.21")>>],
      [ID |-> "id", Tarics |-> <<Code("eu", "0101.21"), Code("no", "0101.21")>>] }

\* The bodies of the answers to the fetch: text that is no JSON document,
\* and import documents of at most MaxItems items.
FetchBodies ==
    {[decodes |-> FALSE, text |-> t, items |-> <<>>] : t \in ErrorBodies}
    \cup {[decodes |-> TRUE, text |-> "", items |-> r] : r \in SeqsUpTo(ResponseItems, MaxItems)}

RECURSIVE HasControlChar(_)
\* Whether s holds an ASCII control character.
HasControlChar(s) ==
    s # "" /\ (Head(s) \in {"\n", "\r", "\t"} \/ HasControlChar(Tail(s)))

\* http.NewRequest fails on a URL that does not parse; of the parser's
\* rules the model keeps the one on control characters.
NewRequestFails(target) == HasControlChar(target)

\* json.Marshal refuses a float64 that is NaN or an infinity.
Unencodable(mass) == mass # <<>> /\ mass[1].class \in {"nan", "inf"}

\* json.Marshal(request) fails.
MarshalFails(request) ==
    \E n \in 1..Len(request) :
        Unencodable(request[n].GrossMass) \/ Unencodable(request[n].NetMass)

\* A mutation of SubmitAccepted: any of the 2xx codes will do.
SubmitAcceptedAny2xx(code) == code \in {200, 201}

\* sendImportRequest succeeds on this status code (http.StatusCreated).
SubmitAccepted(code) == code = 201

\* A mutation of FetchAccepted: any of the 2xx codes will do.
FetchAcceptedAny2xx(code) == code \in {200, 201}

\* getImportResponse goes on to decode the body on this status code
\* (http.StatusOK).
FetchAccepted(code) == code = 200

\* sendImportRequest and main's check of its result: the request cannot be
\* built, the POST fails on the network, the server answers with another
\* status than 201, or it answers 201 and its Location is the job location.
Submit ==
    /\ pc = "submit"
    /\ exit = "running"
    /\ UNCHANGED <<call, ret>>
    /\ UNCHANGED <<rows, sheet, url, timeout, headings, idx, imp, i,
                   importStatusResponse, waitResult, importResponse, k, saved, sleeps, slept>>
    /\ \/ /\ MarshalFails(imp)
          /\ Fatal("json: unsupported value", "", 0)
          /\ UNCHANGED <<http, importLocation>>
       \/ /\ ~MarshalFails(imp)
          /\ NewRequestFails(url \o "/api/v1/items/imports")
          /\ Fatal("invalid URL", "", 0)
          /\ UNCHANGED <<http, importLocation>>
       \/ /\ ~MarshalFails(imp)
          /\ ~NewRequestFails(url \o "/api/v1/items/imports")
          /\ http' = [http EXCEPT !.posts = @ + 1]
          /\ Fatal("transport error", "", 0)
          /\ UNCHANGED importLocation
       \/ /\ ~MarshalFails(imp)
          /\ ~NewRequestFails(url \o "/api/v1/items/imports")
          /\ \E code \in PostStatusCodes, location \in Locations, body \in ErrorBodies :
                /\ http' = [http EXCEPT !.posts = @ + 1, !.postStatus = code,
                                        !.postLocation = location, !.postBody = body]
                /\ IF SubmitAccepted(code)
                   THEN /\ importLocation' = location
                        /\ pc' = "poll"
                        /\ UNCHANGED <<exit, message>>
                   ELSE /\ Fatal("unexpected status code while importing items", body, code)
                        /\ UNCHANGED importLocation

ErrFailed == "failed"

ErrNotProcessed == "not processed"

\* The decoded status after json.Unmarshal of a status document into
\* importStatusResponse: a document without the field leaves it as it was.
Unmarshal(old, document) == IF document = <<>> THEN old ELSE document[1]

\* A mutation of SleepSeconds: the interval grows with each pass.
SleepSecondsGrowing(n) == n + 1

\* The seconds waitForProcessing sleeps for at the end of pass n:
\* time.Second, whatever the pass.
SleepSeconds(n) == 1

\* A mutation of InBudget: one pass too many.
InBudgetInclusive(n, budget) == n <= budget

\* The loop of waitForProcessing goes on while i < timeout.
InBudget(n, budget) == n < budget

\* A mutation of StatusResult: the check for processed is missing.
StatusResultFailedOnly(status) ==
    IF status = ImportItemStatusFailed THEN ErrFailed ELSE ""

\* A mutation of StatusResult: the check for failed is missing.
StatusResultProcessedOnly(status) ==
    IF status = ImportItemStatusProcessed THEN "nil" ELSE ""

\* A mutation of StatusResult: a status that is none of the four known ones
\* is an error.
StatusResultKnownOnly(status) ==
    IF status = ImportItemStatusFailed THEN ErrFailed
    ELSE IF status = ImportItemStatusProcessed THEN "nil"
    ELSE IF status \in {ImportItemStatusPending, ImportItemStatusProcessing} THEN ""
    ELSE "unexpected status"

\* What the loop of waitForProcessing does on a decoded status: return
\* ErrFailed, return nil, or ("") sleep and go on.
StatusResult(status) ==
    IF status = ImportItemStatusFailed THEN ErrFailed
    ELSE IF status = ImportItemStatusProcessed THEN "nil"
    ELSE ""

\* A mutation of PollErrorIsFatal: main stops on ErrFailed alone.
PollErrorIsFatalOnFailedOnly(result) == result = ErrFailed

\* A mutation of PollErrorIsFatal: the error of waitForProcessing is not
\* checked.
PollErrorIsFatalNever(result) == FALSE

\* A mutation of PollErrorIsFatal: main stops on ErrFailed and on
\* ErrNotProcessed, and goes on after any other error.
PollErrorIsFatalOnStatusOnly(result) == result \in {ErrFailed, ErrNotProcessed}

\* main stops on any error of waitForProcessing.
PollErrorIsFatal(result) == result # "nil"

\* The message main stops with on an error of waitForProcessing: ErrFailed
\* gets a message of its own, any other error is printed as it is.
PollErrorMessage(result) ==
    IF result = ErrFailed THEN "error processing import" ELSE result

\* waitForProcessing returns result, and main either stops or goes on to
\* fetch the import.
WaitReturns(result) ==
    /\ waitResult' = result
    /\ IF PollErrorIsFatal(result)
       THEN Fatal(PollErrorMessage(result), "", 0)
       ELSE /\ pc' = "fetch"
            /\ UNCHANGED <<exit, message>>

\* One pass of the loop of waitForProcessing: the request cannot be built,
\* the GET fails on the network, the answer cannot be read or decoded, or
\* the decoded status ends the loop (failed, processed) or leads to a
\* sleep of one second and the next pass.
PollTick ==
    /\ pc = "poll"
    /\ exit = "running"
    /\ UNCHANGED <<call, ret>>
    /\ InBudget(i, timeout)
    /\ UNCHANGED <<rows, sheet, url, timeout, headings, idx, imp, importLocation,
                   importResponse, k, saved>>
    /\ \/ /\ NewRequestFails(url \o importLocation \o "/status")
          /\ WaitReturns("invalid URL")
          /\ UNCHANGED <<http, i, importStatusResponse, sleeps, slept>>
       \/ /\ ~NewRequestFails(url \o importLocation \o "/status")
          /\ http' = [http EXCEPT !.gets = @ + 1, !.getStatus = 0,
                                  !.getDecodes = FALSE]
          /\ WaitReturns("transport error")
          /\ UNCHANGED <<i, importStatusResponse, sleeps, slept>>
       \/ /\ ~NewRequestFails(url \o importLocation \o "/status")
          /\ \E code \in PollStatusCodes :
                http' = [http EXCEPT !.gets = @ + 1, !.getStatus = code,
                                     !.getDecodes = FALSE]
          /\ WaitReturns("invalid status document")
          /\ UNCHANGED <<i, importStatusResponse, sleeps, slept>>
       \/ /\ ~NewRequestFails(url \o importLocation \o "/status")
          /\ \E code \in PollStatusCodes, document \in StatusDocuments :
                /\ http' = [http EXCEPT !.gets = @ + 1, !.getStatus = code,
                                        !.getDecodes = TRUE]
                /\ importStatusResponse' = Unmarshal(importStatusResponse, document)
                /\ IF StatusResult(importStatusResponse') # ""
                   THEN /\ WaitReturns(StatusResult(importStatusResponse'))
                        /\ UNCHANGED <<i, sleeps, slept>>
                   ELSE /\ sleeps' = sleeps + 1
                        /\ slept' = slept + SleepSeconds(i)
                        /\ i' = i + 1
                        /\ UNCHANGED <<pc, exit, message, waitResult>>

\* The loop of waitForProcessing ends with the budget used up:
\* ErrNotProcessed.
PollTimeout ==
    /\ pc = "poll"
    /\ exit = "running"
    /\ UNCHANGED <<call, ret>>
    /\ ~InBudget(i, timeout)
    /\ WaitReturns(ErrNotProcessed)
    /\ UNCHANGED <<rows, sheet, url, timeout, headings, idx, imp, importLocation, i,
                   importStatusResponse, importResponse, k, saved, sleeps, slept, http>>

\* getImportResponse and main's check of its result: the GET fails on the
\* network, the server answers with another status than 200, the body of
\* a 200 does not decode, or it decodes to the import response.  (The
\* request is built from the URL the status requests were built from, less
\* the suffix, so it can be built whenever this point is reached.)
Fetch ==
    /\ pc = "fetch"
    /\ exit = "running"
    /\ UNCHANGED <<call, ret>>
    /\ UNCHANGED <<rows, sheet, url, timeout, headings, idx, imp, importLocation, i,
                   importStatusResponse, waitResult, k, saved, sleeps, slept>>
    /\ \/ /\ http' = [http EXCEPT !.fetches = @ + 1]
          /\ Fatal("transport error", "", 0)
          /\ UNCHANGED importResponse
       \/ \E code \in FetchStatusCodes, body \in FetchBodies :
             /\ http' = [http EXCEPT !.fetches = @ + 1, !.fetchStatus = code,
                                     !.fetchDecodes = body.decodes,
                                     !.fetchText = body.text]
             /\ IF ~FetchAccepted(code)
                THEN /\ Fatal("unexpected status code while getting an import",
                              body.text, code)
                     /\ UNCHANGED importResponse
                ELSE IF ~body.decodes
                THEN /\ Fatal("invalid import document", "", 0)
                     /\ UNCHANGED importResponse
                ELSE /\ importResponse' = body.items
                     /\ pc' = "reconcile"
                     /\ UNCHANGED <<exit, message>>

(* --------------------------- the reconciler ---------------------------- *)

\* The rows getRowByItemID goes through: all the rows read, the header row
\* first.
SearchedRows(rs) == 1..Len(rs)

\* getRowByItemID: the 0-based index and the row of the first row whose
\* cell at idIndex equals itemID; (0, nil) when there is none; a panic
\* when a row before the match is too short to have that cell.
getRowByItemID(rs, idIndex, itemID) ==
    LET short == {n \in SearchedRows(rs) : Len(rs[n]) <= idIndex}
        hits  == {n \in SearchedRows(rs) :
                     Len(rs[n]) > idIndex /\ rs[n][idIndex + 1] = itemID}
        first(S) == CHOOSE n \in S : \A m \in S : n <= m
    IN  IF hits # {} /\ \A n \in short : first(hits) < n
        THEN [panic |-> FALSE, found |-> TRUE, index |-> first(hits) - 1,
              row |-> rs[first(hits)]]
        ELSE IF short # {}
        THEN [panic |-> TRUE, found |-> FALSE, index |-> 0, row |-> <<>>]
        ELSE [panic |-> FALSE, found |-> FALSE, index |-> 0, row |-> <<>>]

\* A mutation of RowIsNil: the check of the lookup's result is missing.
RowIsNilNever(match) == FALSE

\* main's check "row == nil" of what getRowByItemID returned.
RowIsNil(match) == ~match.found

\* getTaricByTerritory: a pointer to the item's first customs code of the
\* territory, nil when it has none.
getTaricByTerritory(item, territory) ==
    LET hits == {n \in 1..Len(item.Tarics) : item.Tarics[n].CustomsTerritory = territory}
    IN  IF hits = {} THEN <<>>
        ELSE <<item.Tarics[CHOOSE n \in hits : \A m \in hits : n <= m]>>

\* The row with empty cells appended until it has n cells.
PadTo(row, n) ==
    IF Len(row) >= n THEN row
    ELSE row \o [m \in 1..(n - Len(row)) |-> ""]

\* The row main writes back for a matched item: padded to one cell more
\* than the header row, with the two codes at the result columns.
ResultRow(row, heads, ix, codeEU, codeNO) ==
    [PadTo(row, Len(heads) + 1) EXCEPT ![ix.iResultEU + 1] = codeEU,
                                       ![ix.iResultNO + 1] = codeNO]

\* One pass of main's loop over the items of the response: the row of the
\* item is looked up, its absence is fatal; the codes of the two
\* territories are read through the pointers getTaricByTerritory returns
\* (a nil pointer panics) and the row is written to the sheet at the
\* spreadsheet row of its index.
ReconcileItem ==
    /\ pc = "reconcile"
    /\ exit = "running"
    /\ UNCHANGED <<call, ret>>
    /\ k < Len(importResponse)
    /\ UNCHANGED <<rows, url, timeout, headings, idx, imp, importLocation, i,
                   importStatusResponse, waitResult, importResponse, saved, sleeps, slept,
                   http>>
    /\ LET item    == importResponse[k + 1]
           match   == getRowByItemID(rows, idx.iID, item.ID)
           taricEU == getTaricByTerritory(item, customsTerritoryEU)
           taricNO == getTaricByTerritory(item, customsTerritoryNO)
       IN  IF match.panic
           THEN Panic("index out of range") /\ UNCHANGED <<sheet, k>>
           ELSE IF RowIsNil(match)
           THEN /\ Fatal("error processing import response, row with item id is not found",
                         item.ID, 0)
                /\ UNCHANGED <<sheet, k>>
           ELSE IF taricEU = <<>> \/ taricNO = <<>>
           THEN Panic("nil pointer dereference") /\ UNCHANGED <<sheet, k>>
           ELSE /\ sheet' = [sheet EXCEPT ![match.index + 1] =
                                ResultRow(match.row, headings, idx,
                                          taricEU[1].Code, taricNO[1].Code)]
                /\ k' = k + 1
                /\ UNCHANGED <<pc, exit, message>>

\* After the loop: SaveAs writes the output file and the run ends with
\* exit code 0, or SaveAs fails.
Save ==
    /\ pc = "reconcile"
    /\ exit = "running"
    /\ UNCHANGED <<call, ret>>
    /\ k = Len(importResponse)
    /\ UNCHANGED <<rows, sheet, url, timeout, headings, idx, imp, importLocation, i,
                   importStatusResponse, waitResult, importResponse, k, sleeps, slept, http>>
    /\ \/ /\ saved' = TRUE
          /\ pc' = "done"
          /\ exit' = "ok"
          /\ UNCHANGED message
       \/ /\ Fatal("cannot save the output", "", 0)
          /\ UNCHANGED saved

(* ------------------------------ the run -------------------------------- *)

Next ==
    \/ MapRows
    \/ Submit
    \/ PollTick
    \/ PollTimeout
    \/ Fetch
    \/ ReconcileItem
    \/ Save

Spec == Init /\ [][Next]_vars

(* ------------------- calls of single functions ------------------------- *)

\* Most entries of a customs-territories cell.
MaxEntries == 3

\* Entries of a customs-territories cell as they are typed (raw), each with
\* the territory it spells (norm).
EntryForms ==
    { [raw |-> "eu",   norm |-> "eu"],
      [raw |-> "no",   norm |-> "no"],
      [raw |-> "EU",   norm |-> "eu"],
      [raw |-> " No ", norm |-> "no"],
      [raw |-> "us",   norm |-> "us"],
      [raw |-> " US",  norm |-> "us"],
      [raw |-> "",     norm |-> ""] }

RECURSIVE Join(_, _)
\* The cell whose entries are the raw forms of es, sep between them.
Join(es, sep) ==
    IF Len(es) = 1 THEN es[1].raw
    ELSE es[1].raw \o sep \o Join(Tail(es), sep)

\* The calls of prepareCustomsTerritories: a cell of one to MaxEntries
\* entries, with the entries it was made of.
TerritoryCalls ==
    { [fn |-> "prepareCustomsTerritories", entries |-> es,
       customsTerritories |-> Join(es, ",")] :
          es \in SeqsUpTo(EntryForms, MaxEntries) \ {<<>>} }

\* The columns header rows are made of: the mandatory ones and an optional
\* one.
ColumnNames == {"id", "name", "description", "customs territories", "gross mass"}

\* How a header cell spells a column name: as it is, in capitals, or in
\* mixed case with blanks around it.
Styles == {"plain", "capitals", "padded"}

Styled(name, style) ==
    IF style = "plain" THEN name
    ELSE IF style = "capitals"
    THEN CASE name = "id"                  -> "ID"
           [] name = "name"                -> "NAME"
           [] name = "description"         -> "DESCRIPTION"
           [] name = "customs territories" -> "CUSTOMS TERRITORIES"
           [] name = "gross mass"          -> "GROSS MASS"
    ELSE CASE name = "id"                  -> " Id "
           [] name = "name"                -> "\tName"
           [] name = "description"         -> "Description  "
           [] name = "customs territories" -> " Customs Territories\n"
           [] name = "gross mass"          -> "  gross Mass"

\* The orders of three or four distinct columns.
ColumnOrders ==
    {cs \in SeqsUpTo(ColumnNames, Cardinality(ColumnNames) - 1) :
        /\ Len(cs) >= Cardinality(ColumnNames) - 2
        /\ \A a, b \in 1..Len(cs) : a # b => cs[a] # cs[b]}

\* The calls of getMandatoryColumnIndex: a header row of the columns in
\* some order and style, and the mandatory column looked up.
ColumnCalls ==
    { [fn |-> "getMandatoryColumnIndex", columns |-> cs,
       row |-> [n \in 1..Len(cs) |-> Styled(cs[n], st)], name |-> name] :
          cs \in ColumnOrders, st \in Styles,
          name \in {MandatoryColumns[n] : n \in 1..Len(MandatoryColumns)} }

\* Values of the --api-key flag without the prefix.
BareKeys == {"k", "s3cr3t", "bearer x", "Bearer"}

\* The calls that build the Authorization header: a key typed bare, or with
\* the prefix before it.
KeyCalls ==
    { [fn |-> f, bare |-> key, apiKey |-> prefix \o key] :
          f \in {"Authorization", "prepareApiKey"}, key \in BareKeys,
          prefix \in {"", "Bearer "} }

\* strings.TrimPrefix
TrimPrefix(s, prefix) ==
    IF Len(s) >= Len(prefix) /\ SubSeq(s, 1, Len(prefix)) = prefix
    THEN SubSeq(s, Len(prefix) + 1, Len(s))
    ELSE s

\* The value of the Authorization header that sendImportRequest,
\* waitForProcessing and getImportResponse add to their requests.
Authorization(apiKey) == "Bearer " \o apiKey

\* prepareApiKey of the other variant of the client.
prepareApiKey(apiKey) == "Bearer " \o TrimPrefix(apiKey, "Bearer ")

\* The header rows the other variant of main resolves its result columns
\* in: with none, one or both of them there already.
ResultColumnCalls ==
    { [fn |-> "ResolveResultColumns", row |-> h] :
          h \in { <<"id", "name", "description", "customsTerritories">>,
                  <<"id", "name", "actualEU", "description", "customsTerritories">>,
                  <<"id", "name", "description", "customsTerritories", " ActualNO ">>,
                  <<"actualNO", "id", "name", "description", "customsTerritories",
                    "actualEU">> } }

\* The result columns of the other variant of main: a column is appended
\* to the headings when getColumnIndex does not find it, and looked up
\* again.
ResolveResultColumns(row) ==
    LET withEU == IF getColumnIndex(row, "actualEU") = <<>>
                  THEN Append(row, "actualEU") ELSE row
        withNO == IF getColumnIndex(withEU, "actualNO") = <<>>
                  THEN Append(withEU, "actualNO") ELSE withEU
    IN  [headings  |-> withNO,
         iActualEU |-> getColumnIndex(withEU, "actualEU"),
         iActualNO |-> getColumnIndex(withNO, "actualNO")]

\* One function is about to be called on one input; main does not run.
CallInit ==
    /\ call \in TerritoryCalls \cup ColumnCalls \cup KeyCalls \cup ResultColumnCalls
    /\ ret = NoReturn
    /\ pc = "call"
    /\ rows = <<>>
    /\ sheet = <<>>
    /\ url = ""
    /\ timeout = 0
    /\ headings = <<>>
    /\ idx = NoIndices
    /\ imp = <<>>
    /\ importLocation = ""
    /\ i = 0
    /\ importStatusResponse = ""
    /\ waitResult = ""
    /\ importResponse = <<>>
    /\ k = 0
    /\ exit = "running"
    /\ message = NoMessage
    /\ saved = FALSE
    /\ sleeps = 0
    /\ slept = 0
    /\ http = NoRequests

\* What a call leaves alone: everything of main.
CallFrame ==
    UNCHANGED <<pc, rows, sheet, url, timeout, headings, idx, imp, importLocation, i,
                importStatusResponse, waitResult, importResponse, k, exit, message,
                saved, sleeps, slept, http, call>>

CallPrepareCustomsTerritories ==
    /\ call.fn = "prepareCustomsTerritories"
    /\ ~ret.returned
    /\ ret' = [returned |-> TRUE,
               value |-> prepareCustomsTerritories(call.customsTerritories)]
    /\ CallFrame

CallGetMandatoryColumnIndex ==
    /\ call.fn = "getMandatoryColumnIndex"
    /\ ~ret.returned
    /\ ret' = [returned |-> TRUE,
               value |-> getMandatoryColumnIndex(call.row, call.name)]
    /\ CallFrame

CallAuthorization ==
    /\ call.fn = "Authorization"
    /\ ~ret.returned
    /\ ret' = [returned |-> TRUE, value |-> Authorization(call.apiKey)]
    /\ CallFrame

CallPrepareApiKey ==
    /\ call.fn = "prepareApiKey"
    /\ ~ret.returned
    /\ ret' = [returned |-> TRUE, value |-> prepareApiKey(call.apiKey)]
    /\ CallFrame

CallResolveResultColumns ==
    /\ call.fn = "ResolveResultColumns"
    /\ ~ret.returned
    /\ ret' = [returned |-> TRUE, value |-> ResolveResultColumns(call.row)]
    /\ CallFrame

CallNext ==
    \/ CallResolveResultColumns
    \/ CallPrepareCustomsTerritories
    \/ CallGetMandatoryColumnIndex
    \/ CallAuthorization
    \/ CallPrepareApiKey

CallSpec == CallInit /\ [][CallNext]_vars

(* ------------------------------ the claims ----------------------------- *)

TerminalStatuses == {ImportItemStatusProcessed, ImportItemStatusFailed}

\* C1: in waitForProcessing, once a status response of processed or failed
\* has been decoded, no further status GET is issued.
C1_NoGetAfterTerminalStatus ==
    [][(importStatusResponse \in TerminalStatuses) => (http.gets = (http.gets)')]_vars

\* A failed status that came as the first response of a budget of two
\* ended the loop.
C1_Witness ==
    /\ importStatusResponse = ImportItemStatusFailed
    /\ http.gets = 1
    /\ timeout = 2

\* C2: for every budget N >= 0 of the --timeout flag, while every status
\* GET is answered by a status that is not terminal, each pass issues one
\* GET and the passes stop at N; after N such passes waitForProcessing
\* returns ErrNotProcessed, and it returns ErrNotProcessed only after
\* exactly N status GETs.
C2_TimeoutAfterExactlyNGets ==
    /\ (pc = "poll" /\ exit = "running") => (http.gets = i /\ i <= timeout)
    /\ (waitResult # "" /\ i = timeout) => waitResult = ErrNotProcessed
    /\ waitResult = ErrNotProcessed =>
          /\ http.gets = timeout
          /\ importStatusResponse \notin TerminalStatuses

\* Two passes, two status GETs, neither answered by a terminal status.
C2_Witness ==
    /\ waitResult = ErrNotProcessed
    /\ timeout = 2
    /\ http.gets = 2
    /\ importStatusResponse = ImportItemStatusProcessing

\* C3: waitForProcessing returns ErrFailed iff the status it decoded last
\* (the first terminal one) is failed, nil iff it is processed, and
\* ErrNotProcessed iff it returns after as many passes as the budget, none
\* of which saw a terminal status; the three exclude each other, and main
\* stops on ErrFailed and on ErrNotProcessed with different messages.
C3_PollOutcomeByFirstTerminalStatus ==
    /\ waitResult = ErrFailed <=> importStatusResponse = ImportItemStatusFailed
    /\ waitResult = "nil" <=> importStatusResponse = ImportItemStatusProcessed
    /\ waitResult = ErrNotProcessed <=> (waitResult # "" /\ i = timeout)
    /\ waitResult = ErrNotProcessed => importStatusResponse \notin TerminalStatuses
    /\ waitResult = ErrFailed =>
          exit = "fatal" /\ message.kind = "error processing import"
    /\ waitResult = ErrNotProcessed =>
          exit = "fatal" /\ message.kind = "not processed"
    /\ waitResult = "nil" =>
          message.kind \notin {"error processing import", "not processed"}

\* A failed status after a status that was not terminal.
C3_Witness ==
    /\ waitResult = ErrFailed
    /\ http.gets = 2
    /\ message.kind = "error processing import"

\* C4: the fetch GET is issued at most once, and only after
\* waitForProcessing has returned nil on a processed status; after any
\* other return of waitForProcessing the run is over with no fetch issued.
C4_FetchOnlyAfterPollSuccess ==
    /\ http.fetches <= 1
    /\ http.fetches = 1 =>
          waitResult = "nil" /\ importStatusResponse = ImportItemStatusProcessed
    /\ waitResult \notin {"", "nil"} => (http.fetches = 0 /\ exit = "fatal")

\* The import was fetched after a processed status.
C4_Witness ==
    /\ http.fetches = 1
    /\ waitResult = "nil"
    /\ pc = "reconcile"

\* The cell has an entry that is not a supported territory.
C5_UnsupportedTerritory(cell) ==
    \E n \in 1..Len(Split(cell, ",")) :
        TrimSpace(ToLower(Split(cell, ",")[n])) \notin {"eu", "no"}

\* The row's cell of the (present) mass column is there, is not empty and
\* does not parse.
C5_UnparsableMass(row, column) ==
    /\ column # <<>>
    /\ Len(row) > column[1]
    /\ row[column[1] + 1] # ""
    /\ ParseFloat(row[column[1] + 1]).err

\* The sheet read has a validation error: a mandatory column is missing,
\* or some data row has an unsupported territory or an unparsable mass.
C5_InputInvalid ==
    \/ \E name \in {"id", "name", "description", "customs territories"} :
          getColumnIndex(rows[1], name) = <<>>
    \/ \E n \in 2..Len(rows) :
          LET ct == getColumnIndex(rows[1], "customs territories")[1]
          IN  \/ Len(rows[n]) > ct /\ C5_UnsupportedTerritory(rows[n][ct + 1])
              \/ C5_UnparsableMass(rows[n], getColumnIndex(rows[1], "gross mass"))
              \/ C5_UnparsableMass(rows[n], getColumnIndex(rows[1], "net mass"))

\* C5: on a sheet with a validation error the mapping step stops the run
\* with no HTTP request issued, and a run that has stopped issues none.
C5_NoRequestOnInvalidInput ==
    [][/\ (pc = "map" /\ C5_InputInvalid) =>
             (exit' \in {"fatal", "panic"} /\ http' = NoRequests)
       /\ exit # "running" => (http' = http)]_vars

\* A sheet whose first data row maps and whose second has an unsupported
\* territory: the run has stopped, nothing was sent.
C5_Witness ==
    /\ exit = "fatal"
    /\ message = [kind |-> "customs territory is not supported", arg |-> "us", code |-> 0]
    /\ Len(rows) = 3
    /\ rows[2] = <<"A1", "Laptop", "d", "EU, no">>
    /\ http = NoRequests

\* sendImportRequest has returned.
SubmitReturned == pc \notin {"map", "submit"} \/ (pc = "submit" /\ exit # "running")

\* sendImportRequest has returned a location and no error.
SubmitSucceeded == pc \notin {"map", "submit"}

\* What the claim on Submit says apart from the number of POSTs: success
\* iff the answer's status is 201, the Location header as the job
\* location, any other status fatal with the status code and the body in
\* the message, no second POST and nothing sent after a failure.
SubmitByStatus ==
    /\ http.posts <= 1
    /\ SubmitReturned => (SubmitSucceeded <=> http.postStatus = 201)
    /\ SubmitSucceeded => importLocation = http.postLocation
    /\ (SubmitReturned /\ http.postStatus \notin {0, 201}) =>
          /\ pc = "submit"
          /\ exit = "fatal"
          /\ message = [kind |-> "unexpected status code while importing items",
                        arg  |-> http.postBody,
                        code |-> http.postStatus]
    /\ (pc = "submit" /\ exit # "running") => (http.gets = 0 /\ http.fetches = 0)

\* C6 as claimed: Submit issues exactly one POST per run, and succeeds iff
\* the answer's status is 201 (and the rest of SubmitByStatus).
C6_ExactlyOnePost ==
    /\ SubmitReturned => http.posts = 1
    /\ SubmitByStatus

\* C6, amended: Submit issues at most one POST per run: exactly one when
\* the request can be built (the batch encodes as JSON and the URL
\* parses), none when it cannot; it succeeds iff the answer's status is
\* 201 (and the rest of SubmitByStatus).
C6_OnePostWhenRequestIsBuilt ==
    /\ SubmitReturned =>
          (http.posts = 1 <=>
             (~MarshalFails(imp) /\ ~NewRequestFails(url \o "/api/v1/items/imports")))
    /\ SubmitByStatus

\* The server answered the one POST with 500: fatal, with the code and the
\* body.
C6_Witness ==
    /\ pc = "submit"
    /\ exit = "fatal"
    /\ http.posts = 1
    /\ http.postStatus = 500
    /\ message.code = 500
    /\ message.arg = "quota exceeded"

\* getImportResponse has returned.
FetchReturned == http.fetches > 0

\* getImportResponse has returned the import response and no error.
FetchSucceeded == pc \in {"reconcile", "done"}

\* What the claim on Fetch says of an answer with another status than 200:
\* fatal with the status code and the body in the message, no row
\* reconciled, nothing saved.
FetchFailedByStatus ==
    (FetchReturned /\ http.fetchStatus \notin {0, 200}) =>
        /\ pc = "fetch"
        /\ exit = "fatal"
        /\ message = [kind |-> "unexpected status code while getting an import",
                      arg  |-> http.fetchText,
                      code |-> http.fetchStatus]
        /\ k = 0
        /\ sheet = [rows EXCEPT ![1] = headings]
        /\ ~saved

\* C7 as claimed: Fetch succeeds iff the answer's status is 200 (and
\* FetchFailedByStatus).
C7_SuccessIffStatus200 ==
    /\ FetchReturned => (FetchSucceeded <=> http.fetchStatus = 200)
    /\ FetchFailedByStatus

\* C7, amended: Fetch succeeds iff the answer's status is 200 and its body
\* decodes as an import document (and FetchFailedByStatus).
C7_SuccessIffStatus200AndDecodes ==
    /\ FetchReturned =>
          (FetchSucceeded <=> (http.fetchStatus = 200 /\ http.fetchDecodes))
    /\ FetchFailedByStatus

\* The server answered the fetch with 404: fatal, with the code and the
\* body.
C7_Witness ==
    /\ pc = "fetch"
    /\ exit = "fatal"
    /\ http.fetchStatus = 404
    /\ message.code = 404
    /\ message.arg = "quota exceeded"

\* Whether some data row (any row after the header row) of rs has itemID
\* in its identifier cell.
HasDataRow(rs, idIndex, itemID) ==
    \E n \in 2..Len(rs) : Len(rs[n]) > idIndex /\ rs[n][idIndex + 1] = itemID

\* C8: a returned item whose identifier is in the identifier cell of no
\* data row is never passed over: every item the loop has gone past has a
\* data row, and the run that stops at such an item stops with the fatal
\* error naming its identifier, nothing being saved.
C8_UnmatchedItemIsFatal ==
    /\ \A j \in 1..k : HasDataRow(rows, idx.iID, importResponse[j].ID)
    /\ (/\ pc = "reconcile"
        /\ exit = "fatal"
        /\ k < Len(importResponse)
        /\ ~HasDataRow(rows, idx.iID, importResponse[k + 1].ID)) =>
          /\ message.kind = "error processing import response, row with item id is not found"
          /\ message.arg = importResponse[k + 1].ID
          /\ ~saved

\* The code of the item for the territory, the empty string when the item
\* has no entry for it.
CodeOrEmpty(item, territory) ==
    LET taric == getTaricByTerritory(item, territory)
    IN  IF taric = <<>> THEN "" ELSE taric[1].Code

\* C9: the row matched by the item the loop has just gone past holds, at
\* each result column, the item's code for the territory or the empty
\* string when the item has no entry for it; and the loop never stops at
\* an item that has a row: it stops only at an item without one.
C9_MissingTerritoryYieldsEmptyCell ==
    /\ (pc = "reconcile" /\ exit = "running" /\ k > 0) =>
          LET item  == importResponse[k]
              match == getRowByItemID(rows, idx.iID, item.ID)
          IN  /\ sheet[match.index + 1][idx.iResultEU + 1] =
                    CodeOrEmpty(item, customsTerritoryEU)
              /\ sheet[match.index + 1][idx.iResultNO + 1] =
                    CodeOrEmpty(item, customsTerritoryNO)
    /\ (pc = "reconcile" /\ exit # "running" /\ k < Len(importResponse)) =>
          ~getRowByItemID(rows, idx.iID, importResponse[k + 1].ID).found

\* Whether the response has an item for the identifier of data row n.
RowHasItem(n) ==
    \E j \in 1..Len(importResponse) :
        Len(rows[n]) > idx.iID /\ importResponse[j].ID = rows[n][idx.iID + 1]

\* C10 as claimed: a run ends successfully only if the fetched response
\* has an item for the identifier of every data row.
C10_SuccessOnlyIfEveryRowHasItem ==
    exit = "ok" => \A n \in 2..Len(rows) : RowHasItem(n)

\* C10, amended: a run ends successfully only if every item of the fetched
\* response was matched to a row and written back, and the output saved;
\* a row the response has no item for is left without codes and does not
\* fail the run.
C10_SuccessOnlyIfEveryItemHasRow ==
    exit = "ok" =>
        /\ saved
        /\ k = Len(importResponse)
        /\ \A j \in 1..Len(importResponse) :
              getRowByItemID(rows, idx.iID, importResponse[j].ID).found

\* A successful run of two data rows whose response has an item for the
\* first row only.
C10_Witness ==
    /\ exit = "ok"
    /\ saved
    /\ Len(rows) = 3
    /\ Len(importResponse) = 1
    /\ RowHasItem(2)
    /\ ~RowHasItem(3)

\* Every stage before SaveAs has succeeded: the rows were mapped, the POST
\* was answered 201, waitForProcessing returned nil, the fetch was answered
\* 200 with an import document, and the loop went past every item of it.
AllStagesSucceeded ==
    /\ Len(imp) = Len(rows) - 1
    /\ http.posts = 1
    /\ http.postStatus = 201
    /\ waitResult = "nil"
    /\ http.fetches = 1
    /\ http.fetchStatus = 200
    /\ http.fetchDecodes
    /\ k = Len(importResponse)

\* C11: the output is saved and the run exits with 0 only when every stage
\* has succeeded (and then both happen together); a run that ended with a
\* fatal error or a panic has saved nothing.
C11_SavedOnlyAfterEveryStage ==
    /\ saved <=> exit = "ok"
    /\ saved => (pc = "done" /\ AllStagesSucceeded)
    /\ exit \in {"fatal", "panic"} => ~saved

\* A successful run that reconciled two items and saved the output.
C11_Witness ==
    /\ saved
    /\ exit = "ok"
    /\ k = 2
    /\ http.gets = 2

\* The run has stopped before the loop over the returned items.
FailedBeforeReconciliation ==
    pc \in {"map", "submit", "poll", "fetch"} /\ exit \in {"fatal", "panic"}

\* C12 as claimed: in a run that fails before reconciliation the in-memory
\* spreadsheet equals the one that was read.
C12_SheetAsReadBeforeReconciliation ==
    FailedBeforeReconciliation => sheet = rows

\* main has written the header row back to the sheet: it has resolved the
\* mandatory columns.
HeaderWritten ==
    ~(pc = "map" /\ (exit = "running" \/ message.kind = "provided file has no column"))

\* C12, amended: before reconciliation the data rows of the in-memory
\* spreadsheet are the ones read, and its header row is the one read until
\* main has resolved the mandatory columns, and from then on the one read
\* with the cells "result EU" and "result NO" appended, also in a run that
\* fails later in mapping, Submit, Poll or Fetch.
C12_OnlyHeaderChangedBeforeReconciliation ==
    pc \in {"map", "submit", "poll", "fetch"} =>
        /\ Len(sheet) = Len(rows)
        /\ \A n \in 2..Len(rows) : sheet[n] = rows[n]
        /\ sheet[1] = IF HeaderWritten
                      THEN rows[1] \o <<"result EU", "result NO">>
                      ELSE rows[1]

\* A run stopped in mapping on an unsupported territory, the header row of
\* the sheet already holding the result columns.
C12_Witness ==
    /\ pc = "map"
    /\ exit = "fatal"
    /\ message.kind = "customs territory is not supported"
    /\ sheet[1] = rows[1] \o <<"result EU", "result NO">>
    /\ sheet # rows

\* The loop over the returned items has gone past at least one item.
Reconciled == pc \in {"reconcile", "done"} /\ k > 0

\* C13: after reconciliation every cell of an input row, header or data,
\* has its original value in the sheet: the result cells written are none
\* of the input cells.
C13_InputCellsReplicated ==
    Reconciled =>
        /\ Len(sheet) = Len(rows)
        /\ \A n \in 1..Len(rows) :
              /\ Len(sheet[n]) >= Len(rows[n])
              /\ \A c \in 1..Len(rows[n]) : sheet[n][c] = rows[n][c]

\* The positions of the entries of es that spell no allowed territory.
UnsupportedEntries(es) == {n \in 1..Len(es) : es[n].norm \notin {"eu", "no"}}

\* C14: prepareCustomsTerritories of a cell fails iff one of its entries
\* spells a territory other than eu and no, the error naming the first such
\* entry (trimmed, in lower case); otherwise it returns the territories the
\* entries spell, in the order of the cell.  A cell of one empty entry
\* fails.
C14_FirstUnsupportedTerritoryNamed ==
    (call.fn = "prepareCustomsTerritories" /\ ret.returned) =>
        LET bad == UnsupportedEntries(call.entries)
        IN  IF bad = {}
            THEN /\ ~ret.value.err
                 /\ ret.value.result = [n \in 1..Len(call.entries) |-> call.entries[n].norm]
            ELSE /\ ret.value.err
                 /\ ret.value.territory =
                       call.entries[CHOOSE n \in bad : \A m \in bad : n <= m].norm

\* The cell "eu, US,": the first of its two unsupported entries is named.
C14_Witness ==
    /\ call.fn = "prepareCustomsTerritories"
    /\ ret.returned
    /\ call.customsTerritories = "eu, US,"
    /\ ret.value.err
    /\ ret.value.territory = "us"

\* The positions of the header cells that spell the column looked up (at
\* most one, the columns of a header row being distinct).
ColumnPositions == {n \in 1..Len(call.columns) : call.columns[n] = call.name}

\* C15: getMandatoryColumnIndex of a mandatory column gives the index of the
\* header cell that spells it, whatever the order of the columns, the case
\* of the cell and the blanks around it, and fails with the error naming
\* the column when no header cell spells it.
C15_MandatoryColumnResolved ==
    (call.fn = "getMandatoryColumnIndex" /\ ret.returned) =>
        IF ColumnPositions = {}
        THEN ret.value.err /\ ret.value.column = call.name
        ELSE /\ ~ret.value.err
             /\ ret.value.index + 1 \in ColumnPositions

\* The identifier column found as the last of four columns, typed " Id ".
C15_Witness ==
    /\ call.fn = "getMandatoryColumnIndex"
    /\ ret.returned
    /\ call.name = "id"
    /\ call.row = <<"  gross Mass", "Description  ", "\tName", " Id ">>
    /\ ~ret.value.err
    /\ ret.value.index = 3

\* C16: the Authorization header built from an API key is the one built
\* from the key without the prefix "Bearer " it was typed with.
C16_SameHeaderWithOrWithoutPrefix ==
    (call.fn = "Authorization" /\ ret.returned) =>
        ret.value = Authorization(call.bare)

\* The end-to-end scenario: the rows A1 and A2, the POST answered 201 with
\* the location /jobs/1, a first status that is not terminal and a second
\* that is processed, and the fetched codes of A1 (eu and no) and of A2
\* (no alone).
C17_Scenario ==
    /\ Len(rows) = 3
    /\ rows[2] = <<"A1", "Laptop", "d", "EU, no">>
    /\ rows[3] = <<"A2", "Car", "d", "no">>
    /\ http.postStatus = 201
    /\ importLocation = "/jobs/1"
    /\ http.gets = 2
    /\ sleeps = 1
    /\ importStatusResponse = ImportItemStatusProcessed
    /\ http.fetchStatus = 200
    /\ importResponse =
          << [ID |-> "A1", Tarics |-> <<Code("eu", "8471.30"), Code("no", "8471.30")>>],
             [ID |-> "A2", Tarics |-> <<Code("no", "8703.23")>>] >>

\* C17: the run of the scenario ends successfully, after one POST, two
\* status GETs and one fetch, with the codes 8471.30 and 8471.30 in the
\* result cells of row A1 and with an empty cell and 8703.23 in those of
\* row A2.
C17_EndToEnd ==
    (C17_Scenario /\ exit # "running") =>
        /\ exit = "ok"
        /\ saved
        /\ http.posts = 1
        /\ http.fetches = 1
        /\ sheet[2][idx.iResultEU + 1] = "8471.30"
        /\ sheet[2][idx.iResultNO + 1] = "8471.30"
        /\ sheet[3][idx.iResultEU + 1] = ""
        /\ sheet[3][idx.iResultNO + 1] = "8703.23"

RECURSIVE HasNonZeroDigit(_)
HasNonZeroDigit(s) ==
    s # "" /\ ((Head(s) \in Digits \ {"0"}) \/ HasNonZeroDigit(Tail(s)))

\* The mass is a number below zero.
NegativeMass(mass) ==
    /\ mass # <<>>
    /\ mass[1].neg
    /\ (mass[1].class = "inf" \/ HasNonZeroDigit(mass[1].digits))

\* A request has been sent with the import of the rows as its body.
Submitted == http.posts > 0

\* C18: no record of a submitted import has a gross mass or a net mass
\* below zero.
C18_NoNegativeMassSubmitted ==
    Submitted =>
        \A n \in 1..Len(imp) :
            ~NegativeMass(imp[n].GrossMass) /\ ~NegativeMass(imp[n].NetMass)

\* C19: the records of a submitted import have pairwise distinct
\* identifiers.
C19_DistinctIdentifiersSubmitted ==
    Submitted =>
        \A a, b \in 1..Len(imp) : a # b => imp[a].ID # imp[b].ID

\* An HTTP call of the run has failed on the network.
TransportFailed ==
    message.kind = "transport error" \/ waitResult = "transport error"

\* C20: a transport error of the POST, of a status GET or of the fetch ends
\* the run with a fatal error and nothing saved, and from then on no
\* request is issued and nothing is saved.
C20_TransportErrorIsFatal ==
    [][/\ TransportFailed' => (exit' = "fatal" /\ ~saved')
       /\ TransportFailed => (http' = http /\ saved' = saved)]_vars

\* The second status GET of a run failed on the network.
C20_Witness ==
    /\ pc = "poll"
    /\ exit = "fatal"
    /\ waitResult = "transport error"
    /\ message.kind = "transport error"
    /\ http.gets = 2
    /\ http.fetches = 0

\* C21: waitForProcessing sleeps once, for one second, after each status
\* response that does not end the loop, and at no other time: the sleeps
\* are as many as those responses, each of one second; there is none
\* before the first status GET, and none after the response that ended the
\* loop.
C21_OneSleepPerNonTerminalResponse ==
    /\ sleeps = i
    /\ slept = sleeps
    /\ http.gets = 0 => sleeps = 0
    /\ (pc = "poll" /\ exit = "running") => sleeps = http.gets
    /\ waitResult \in {"nil", ErrFailed} => sleeps = http.gets - 1
    /\ waitResult = ErrNotProcessed => sleeps = http.gets

\* Two responses that were not terminal used up a budget of two: two
\* sleeps, two seconds slept in all, two status GETs.
C21_Witness ==
    /\ waitResult = ErrNotProcessed
    /\ http.gets = 2
    /\ sleeps = 2
    /\ slept = 2

\* C22: a status GET answered with a document that decodes to a status
\* other than processed and failed, whatever the status code of the
\* answer, uses up one pass of the budget and the loop goes on: nothing is
\* returned and nothing is reported.
C22_NonTerminalStatusContinues ==
    [][(/\ (http.gets)' = http.gets + 1
        /\ (http.getDecodes)'
        /\ importStatusResponse' \notin TerminalStatuses) =>
          (/\ i' = i + 1
           /\ pc' = "poll"
           /\ exit' = "running"
           /\ waitResult' = ""
           /\ message' = NoMessage)]_vars

\* The loop went on after a 404 answer whose document has no status field.
C22_Witness ==
    /\ pc = "poll"
    /\ exit = "running"
    /\ http.gets = 1
    /\ http.getStatus = 404
    /\ http.getDecodes
    /\ importStatusResponse = ""
    /\ i = 1

\* The positions of the cells of the header row that hold the name.
CellsNamed(row, name) == {n \in 1..Len(row) : row[n] = name}

\* C23: once main has resolved the columns, the headings hold each result
\* column exactly once; a header row read with both result columns is left
\* as it is and the result indices are those of its columns.
C23_ResultColumnsAppendedOnce ==
    idx # NoIndices =>
        /\ Cardinality(CellsNamed(headings, "result EU")) = 1
        /\ Cardinality(CellsNamed(headings, "result NO")) = 1
        /\ (CellsNamed(rows[1], "result EU") # {} /\ CellsNamed(rows[1], "result NO") # {}) =>
              /\ headings = rows[1]
              /\ idx.iResultEU + 1 \in CellsNamed(rows[1], "result EU")
              /\ idx.iResultNO + 1 \in CellsNamed(rows[1], "result NO")

\* C24: the header row is never the row matched for a returned item: every
\* item the loop has gone past was matched at a data row, and the header
\* row of the sheet stays the headings main wrote.
C24_HeaderRowNeverMatched ==
    pc \in {"reconcile", "done"} =>
        /\ sheet[1] = headings
        /\ \A j \in 1..k :
              getRowByItemID(rows, idx.iID, importResponse[j].ID).index >= 1

\* C25: no read of a cell goes out of the bounds of its row: whatever the
\* lengths of the data rows, the run never ends in an index-out-of-range
\* panic, neither while the rows are mapped nor while the row of a
\* returned item is looked up.
C25_NoCellReadOutOfBounds ==
    ~(exit = "panic" /\ message.kind = "index out of range")

====
